---- MODULE Spec2Model ----
(***************************************************************************)
(* Model of gruppen.cpp: a GUID -> Flidx database, a group database        *)
(* label -> Query, and the four kinds of Query closures built by           *)
(* QueryContext::createQuery.  A Query is a closure: it is modelled by the *)
(* data it captures.  Invoking a closure is modelled step by step on an    *)
(* explicit call stack, one frame per closure invocation.                  *)
(***************************************************************************)
EXTENDS Integers, Sequences, FiniteSets, TLC

\* Longest list of children handed to createQuery(std::vector<Query>) by the
\* driver of the model (main's own five-element list is added separately).
MaxLen == 2

\* Number of nested closure invocations the call stack has room for.
StackLimit == 8

VARIABLES
    guid_db,    \* GUIDDatabase of main: GUID -> Flidx
    group_db,   \* GroupDatabase of main: GroupLabel -> Query
    pc,         \* "idle" | "running" | "done": position of the driver
    stack,      \* call stack of the running invocation, innermost frame last
    root,       \* the Query object the driver invoked last
    ret,        \* what that invocation gave back to the driver
    prev,       \* what the previous invocation of the same object gave back
    stale,      \* TRUE when group_db was written after ret was produced
    calls,      \* closure invocations made by the invocation in progress
    finds       \* map::find calls made by the invocation in progress

vars == <<guid_db, group_db, pc, stack, root, ret, prev, stale, calls, finds>>

-----------------------------------------------------------------------------
(* Values *)

\* main, line 97
MainGuidDb == (0 :> 0) @@ (16 :> 1) @@ (32 :> 2) @@ (64 :> 3)

\* main, line 98: the group database starts empty
MainGroupDb == << >>

Labels == {"otto", "anna"}

\* GUIDs the driver uses: the four of main's database and one that is absent
Guids == DOMAIN MainGuidDb \cup {8}

\* Values an out-of-bounds read of an int may yield
GarbageFlidx == {-1, 2}

None == [status |-> "none", val |-> {}]
NoQuery == [kind |-> "none"]

\* QueryContext's reference members, bound by the constructor
this_guid_db == guid_db
\* Were the member a copy, not a reference: the database as it was when the
\* context was constructed (main, line 100)
this_group_db_copy == MainGroupDb

this_group_db == group_db

-----------------------------------------------------------------------------
(* makeFlidxSet *)

makeFlidxSetSingle(single) == {single}

\* Were the vector one element short
makeFlidxSetRangeShort(first, last) ==
    LET n == last - first IN
    IF n < 0
    THEN [status |-> "length_error", val |-> {}]
    ELSE LET vals == [k \in 1..n |-> first + (k - 1)] IN
         [status |-> "ok", val |-> {vals[k] : k \in 1..n}]

\* std::vector<int> vals(last-first+1): a negative length converts to a huge
\* size_t and the constructor throws; length 0 gives the empty vector.
\* std::iota fills first, first+1, ...; the set takes the elements.
makeFlidxSetRange(first, last) ==
    LET n == last - first + 1 IN
    IF n < 0
    THEN [status |-> "length_error", val |-> {}]
    ELSE LET vals == [k \in 1..n |-> first + (k - 1)] IN
         [status |-> "ok", val |-> {vals[k] : k \in 1..n}]

-----------------------------------------------------------------------------
(* The four createQuery overloads: each returns a closure holding a copy   *)
(* of its arguments and the context pointer, and reads no database.        *)

createQueryGuid(guid) == [kind |-> "guid", guid |-> guid]

createQueryRange(first, last) == [kind |-> "range", first |-> first, last |-> last]

createQueryLabel(label) == [kind |-> "label", label |-> label]

createQueryList(queries) == [kind |-> "list", queries |-> queries]

-----------------------------------------------------------------------------
(* Queries the driver builds.  main builds its list query from temporaries *)
(* (line 107); the driver of the model does the same.                      *)

RECURSIVE SeqsUpTo(_, _)
SeqsUpTo(S, n) ==
    IF n = 0 THEN {<< >>}
    ELSE LET shorter == SeqsUpTo(S, n - 1) IN
         shorter \cup {Append(s, x) : s \in {t \in shorter : Len(t) = n - 1}, x \in S}

GuidQueries == {createQueryGuid(g) : g \in Guids}
RangeQueries == {createQueryRange(f, l) : f \in Guids, l \in Guids}
LabelQueries == {createQueryLabel(l) : l \in Labels}

\* Children the driver puts into lists, one nested list among them
ChildQueries ==
    {createQueryGuid(16), createQueryRange(0, 16), createQueryLabel("anna")}
    \cup {createQueryList(<<createQueryLabel("otto"), createQueryGuid(16)>>)}

ListQueries == {createQueryList(s) : s \in SeqsUpTo(ChildQueries, MaxLen)}

\* main, lines 103 and 107
MainListQuery ==
    LET groupquery == createQueryLabel("otto") IN
    createQueryList(<<groupquery, groupquery, createQueryGuid(16),
                      createQueryGuid(32), createQueryGuid(64)>>)

\* Queries the driver invokes
EvalQueries == GuidQueries \cup RangeQueries \cup LabelQueries \cup ListQueries
                 \cup {MainListQuery}

\* Queries the driver stores in the group database
RegQueries ==
    {createQueryGuid(g) : g \in {0, 16, 8}}
    \cup {createQueryRange(0, 32)}
    \cup LabelQueries
    \cup {createQueryList(<<createQueryLabel("otto")>>)}
    \cup {createQueryList(<<createQueryGuid(16), createQueryLabel("anna")>>)}

\* GUIDs a query names, at any nesting depth of lists
RECURSIVE GuidsOf(_)
GuidsOf(q) ==
    CASE q.kind = "guid" -> {q.guid}
      [] q.kind = "range" -> {q.first, q.last}
      [] q.kind = "list" -> UNION {GuidsOf(q.queries[k]) : k \in 1..Len(q.queries)}
      [] OTHER -> {}

-----------------------------------------------------------------------------
(* Lookups made inside the closures *)

\* Were ->first read in place of ->second
FindFlidxFirst(guid) ==
    IF guid \in DOMAIN this_guid_db
    THEN {[status |-> "ok", val |-> guid]}
    ELSE {[status |-> "crash", val |-> 0]}
           \cup {[status |-> "ok", val |-> g] : g \in GarbageFlidx}

\* this->guid_db.find(guid)->second.  For an absent key find returns end()
\* and ->second reads past the container: the read faults or yields garbage.
FindFlidx(guid) ==
    IF guid \in DOMAIN this_guid_db
    THEN {[status |-> "ok", val |-> this_guid_db[guid]]}
    ELSE {[status |-> "crash", val |-> 0]}
           \cup {[status |-> "ok", val |-> g] : g \in GarbageFlidx}

\* auto query = this->group_db.find(label)->second.  For an absent key the
\* copy is made from whatever lies behind end(): the copy or the call of it
\* faults, or the std::function read is empty and the call throws.
FindQuery(label) ==
    IF label \in DOMAIN this_group_db
    THEN {[status |-> "ok", val |-> this_group_db[label]]}
    ELSE {[status |-> s, val |-> NoQuery] : s \in {"crash", "bad_function_call"}}

-----------------------------------------------------------------------------
(* The call stack *)

\* A closure invocation that has just been entered
Frame(q) == [query |-> q, idx |-> 0, acc |-> {}]

Top == stack[Len(stack)]

\* Were combi_res assigned, not inserted into
InsertOverwrite(combi_res, query_res) == query_res

\* combi_res.insert(query_res.begin(), query_res.end())
Insert(combi_res, query_res) == combi_res \cup query_res

\* Were the loop to step over a child after each one it invokes
ResumeSkip(frame, query_res) ==
    [frame EXCEPT !.idx = @ + 2, !.acc = Insert(@, query_res)]

\* The invocation below takes the value its callee returned: a list inserts
\* it into combi_res and its loop moves to the next child (lines 84-87); a
\* label query holds it to return it (line 75).
Resume(frame, query_res) ==
    [frame EXCEPT !.idx = @ + 1, !.acc = Insert(@, query_res)]

\* The innermost invocation ends with outcome o.  A value goes to the caller:
\* the driver, or the invocation below.  Anything else is a fault or an
\* exception nobody catches: the whole stack is gone.
Complete(o) ==
    LET n == Len(stack) IN
    IF o.status = "ok" /\ n > 1
    THEN /\ stack' = [SubSeq(stack, 1, n - 1) EXCEPT
                         ![n - 1] = Resume(@, o.val)]
         /\ UNCHANGED <<pc, ret>>
    ELSE /\ stack' = << >>
         /\ pc' = "done"
         /\ ret' = IF o.status = "ok" THEN o ELSE [status |-> o.status, val |-> {}]

\* The innermost invocation calls q(): one more frame, if the stack has room
Call(q) ==
    IF Len(stack) >= StackLimit
    THEN /\ Complete([status |-> "crash", val |-> {}])
         /\ calls' = calls
    ELSE /\ stack' = Append(stack, Frame(q))
         /\ calls' = calls + 1
         /\ UNCHANGED <<pc, ret>>

-----------------------------------------------------------------------------
(* The closures *)

\* guid_query, line 63
GuidQuery ==
    /\ pc = "running"
    /\ Top.query.kind = "guid"
    /\ finds' = finds + 1
    /\ \E o \in FindFlidx(Top.query.guid) :
          Complete(IF o.status = "ok"
                   THEN [status |-> "ok", val |-> makeFlidxSetSingle(o.val)]
                   ELSE o)
    /\ UNCHANGED <<guid_db, group_db, root, prev, stale, calls>>

\* guidrange_query, line 69
GuidRangeQuery ==
    /\ pc = "running"
    /\ Top.query.kind = "range"
    /\ finds' = finds + 2
    /\ \E f \in FindFlidx(Top.query.first), l \in FindFlidx(Top.query.last) :
          Complete(IF f.status # "ok" THEN f
                   ELSE IF l.status # "ok" THEN l
                   ELSE makeFlidxSetRange(f.val, l.val))
    /\ UNCHANGED <<guid_db, group_db, root, prev, stale, calls>>

\* label_query, line 75: the lookup and the call of the copy
LabelQuery ==
    /\ pc = "running"
    /\ Top.query.kind = "label"
    /\ Top.idx = 0
    /\ finds' = finds + 1
    /\ \E o \in FindQuery(Top.query.label) :
          IF o.status = "ok"
          THEN Call(o.val)
          ELSE Complete(o) /\ calls' = calls
    /\ UNCHANGED <<guid_db, group_db, root, prev, stale>>

\* label_query, line 75: return query()
LabelQueryReturn ==
    /\ pc = "running"
    /\ Top.query.kind = "label"
    /\ Top.idx = 1
    /\ Complete([status |-> "ok", val |-> Top.acc])
    /\ UNCHANGED <<guid_db, group_db, root, prev, stale, calls, finds>>

\* list_query, lines 84-86: the next child is invoked
ListQuery ==
    /\ pc = "running"
    /\ Top.query.kind = "list"
    /\ Top.idx < Len(Top.query.queries)
    /\ Call(Top.query.queries[Top.idx + 1])
    /\ UNCHANGED <<guid_db, group_db, root, prev, stale, finds>>

\* list_query, line 89: return combi_res
ListQueryReturn ==
    /\ pc = "running"
    /\ Top.query.kind = "list"
    /\ Top.idx = Len(Top.query.queries)
    /\ Complete([status |-> "ok", val |-> Top.acc])
    /\ UNCHANGED <<guid_db, group_db, root, prev, stale, calls, finds>>

Step ==
    \/ GuidQuery
    \/ GuidRangeQuery
    \/ LabelQuery
    \/ LabelQueryReturn
    \/ ListQuery
    \/ ListQueryReturn

-----------------------------------------------------------------------------
(* The driver *)

\* Were storing a query to look it up first
RegisterEager(label, q) ==
    /\ \/ pc = "idle"
       \/ pc = "done" /\ ret.status = "ok" /\ prev = None
    /\ GuidsOf(q) \subseteq DOMAIN guid_db
    /\ finds' = finds + Cardinality(GuidsOf(q))
    /\ group_db' = [l \in DOMAIN group_db \cup {label} |->
                       IF l = label THEN q ELSE group_db[l]]
    /\ stale' = (pc = "done")
    /\ UNCHANGED <<guid_db, pc, stack, root, ret, prev, calls>>

\* group_db[label] = query, line 102.  Between two invocations of one Query
\* object the driver may store too; a fault or an uncaught exception has
\* ended the program.
Register(label, q) ==
    /\ \/ pc = "idle"
       \/ pc = "done" /\ ret.status = "ok" /\ prev = None
    /\ group_db' = [l \in DOMAIN group_db \cup {label} |->
                       IF l = label THEN q ELSE group_db[l]]
    /\ stale' = (pc = "done")
    /\ UNCHANGED <<guid_db, pc, stack, root, ret, prev, calls, finds>>

\* range_query(), list_query(): lines 105 and 109
Evaluate(q) ==
    /\ pc = "idle"
    /\ pc' = "running"
    /\ stack' = <<Frame(q)>>
    /\ root' = q
    /\ calls' = 1
    /\ UNCHANGED <<guid_db, group_db, ret, prev, stale, finds>>

\* The same Query object is invoked once more
Reevaluate ==
    /\ pc = "done"
    /\ ret.status = "ok"
    /\ prev = None
    /\ prev' = ret
    /\ ret' = None
    /\ pc' = "running"
    /\ stack' = <<Frame(root)>>
    /\ calls' = 1
    /\ finds' = 0
    /\ UNCHANGED <<guid_db, group_db, root, stale>>

\* The driver is through with the result (.size() is printed) and goes on
Discard ==
    /\ pc = "done"
    /\ ret.status = "ok"
    /\ pc' = "idle"
    /\ root' = NoQuery
    /\ ret' = None
    /\ prev' = None
    /\ stale' = FALSE
    /\ calls' = 0
    /\ finds' = 0
    /\ UNCHANGED <<guid_db, group_db, stack>>

\* main, lines 97-100
Init ==
    /\ guid_db = MainGuidDb
    /\ group_db = MainGroupDb
    /\ pc = "idle"
    /\ stack = << >>
    /\ root = NoQuery
    /\ ret = None
    /\ prev = None
    /\ stale = FALSE
    /\ calls = 0
    /\ finds = 0

Next ==
    \/ \E label \in Labels, q \in RegQueries : Register(label, q)
    \/ \E q \in EvalQueries : Evaluate(q)
    \/ Reevaluate
    \/ Discard
    \/ Step

Spec == Init /\ [][Next]_vars

\* An invocation is a plain synchronous call: once entered it runs on
FairSpec == Spec /\ WF_vars(Step)

-----------------------------------------------------------------------------
(* What the claims speak of: the reference graph of the group database and *)
(* the value a query denotes when nothing it reaches is missing.           *)

Ok(v) == [status |-> "ok", val |-> v]

\* The last invocation has returned and group_db is as that invocation saw
\* it: nothing was stored since, or what was stored was stored before the
\* object was invoked again.
Returned == pc = "done" /\ (stale => prev # None)

\* Labels a query names, at any nesting depth of lists
RECURSIVE Refs(_)
Refs(q) ==
    CASE q.kind = "label" -> {q.label}
      [] q.kind = "list" -> UNION {Refs(q.queries[k]) : k \in 1..Len(q.queries)}
      [] OTHER -> {}

\* Range queries inside a query
RECURSIVE RangesOf(_)
RangesOf(q) ==
    CASE q.kind = "range" -> {q}
      [] q.kind = "list" -> UNION {RangesOf(q.queries[k]) : k \in 1..Len(q.queries)}
      [] OTHER -> {}

RECURSIVE Closure(_, _)
Closure(S, n) ==
    IF n = 0 THEN S
    ELSE Closure(S \cup UNION {Refs(group_db[l]) : l \in S \cap DOMAIN group_db}, n - 1)

\* Labels reached from q through group references
Reach(q) == Closure(Refs(q), Cardinality(Labels))

\* q and the registered queries reached from it
Parts(q) == {q} \cup {group_db[l] : l \in Reach(q) \cap DOMAIN group_db}

\* The query registered under l references l, directly or through a chain
Cyclic(l) == l \in DOMAIN group_db /\ l \in Reach(group_db[l])

Acyclic == \A l \in DOMAIN group_db : ~Cyclic(l)

\* Every identifier and every group name reached from q is present
AllPresent(q) ==
    /\ Reach(q) \subseteq DOMAIN group_db
    /\ \A p \in Parts(q) : GuidsOf(p) \subseteq DOMAIN guid_db

\* Every range reached from q runs upwards
RangesOrdered(q) ==
    \A p \in Parts(q) : \A r \in RangesOf(p) :
        guid_db[r.first] <= guid_db[r.last]

Defined(q) ==
    /\ AllPresent(q)
    /\ \A l \in Reach(q) : ~Cyclic(l)
    /\ RangesOrdered(q)

\* The set a query denotes (where Defined)
RECURSIVE Value(_)
Value(q) ==
    CASE q.kind = "guid" -> {guid_db[q.guid]}
      [] q.kind = "range" -> guid_db[q.first]..guid_db[q.last]
      [] q.kind = "label" -> Value(group_db[q.label])
      [] q.kind = "list" -> UNION {Value(q.queries[k]) : k \in 1..Len(q.queries)}

\* Closure invocations an evaluation of q makes (where Defined)
RECURSIVE Invocations(_)
RECURSIVE SumInvocations(_, _)
Invocations(q) ==
    CASE q.kind = "label" -> 1 + Invocations(group_db[q.label])
      [] q.kind = "list" -> 1 + SumInvocations(q.queries, Len(q.queries))
      [] OTHER -> 1
SumInvocations(qs, n) ==
    IF n = 0 THEN 0 ELSE Invocations(qs[n]) + SumInvocations(qs, n - 1)

-----------------------------------------------------------------------------
(* Claims *)

\* C1 (late binding): an invocation of a label query whose label is
\* registered invokes the query bound to the label in group_db at that
\* moment, and where that query denotes a set the invocation returns it,
\* whatever was bound to the label when the label query was built or
\* invoked before.
LateBinding ==
    /\ [](Returned /\ root.kind = "label"
            /\ root.label \in DOMAIN group_db /\ Defined(group_db[root.label])
          => ret = Ok(Value(group_db[root.label])))
    /\ [][pc = "running" /\ Top.query.kind = "label" /\ Top.idx = 0
            /\ Top.query.label \in DOMAIN group_db /\ Len(stack) < StackLimit
          => stack' = Append(stack, Frame(group_db[Top.query.label]))]_vars

\* A label query stored under "anna" refers to "otto"; between two
\* invocations of one label query to "anna", "otto" was bound anew, and the
\* second invocation returned the new query's result.
LateBindingWitness ==
    /\ pc = "done"
    /\ root = createQueryLabel("anna")
    /\ DOMAIN group_db = Labels
    /\ group_db["anna"] = createQueryLabel("otto")
    /\ group_db["otto"] = createQueryGuid(16)
    /\ stale
    /\ prev = Ok({0})
    /\ ret = Ok({1})

\* C2 (as claimed): invoking a label query whose label is bound to a query
\* that references the label again fails with CycleDetected.
CycleDetected ==
    Returned /\ root.kind = "label" /\ Cyclic(root.label)
    => ret.status = "CycleDetected"

\* C3 (as claimed): a range query whose GUIDs are present and whose first
\* value exceeds its last fails with InvalidRange.
InvalidRange ==
    pc = "done" /\ root.kind = "range"
       /\ {root.first, root.last} \subseteq DOMAIN guid_db
       /\ guid_db[root.first] > guid_db[root.last]
    => ret.status = "InvalidRange"

\* C4 (as claimed): invoking a point query or a range query with an absent
\* GUID, or a label query with an unregistered label, fails with NotFound.
NotFound ==
    Returned
       /\ \/ root.kind = "guid" /\ root.guid \notin DOMAIN guid_db
          \/ root.kind = "range" /\ ~({root.first, root.last} \subseteq DOMAIN guid_db)
          \/ root.kind = "label" /\ root.label \notin DOMAIN group_db
    => ret.status = "NotFound"

\* C5: a range query whose GUIDs are present with value(first) <= value(last)
\* returns exactly the integers from value(first) to value(last): it has
\* value(last) - value(first) + 1 elements, both end values among them.
RangeExact ==
    pc = "done" /\ root.kind = "range"
       /\ {root.first, root.last} \subseteq DOMAIN guid_db
       /\ guid_db[root.first] <= guid_db[root.last]
    => /\ ret.status = "ok"
       /\ \A v \in ret.val : guid_db[root.first] <= v /\ v <= guid_db[root.last]
       /\ \A v \in guid_db[root.first]..guid_db[root.last] : v \in ret.val
       /\ Cardinality(ret.val) = guid_db[root.last] - guid_db[root.first] + 1
       /\ {guid_db[root.first], guid_db[root.last]} \subseteq ret.val

\* range(0, 32) over main's database returned {0, 1, 2}
RangeExactWitness ==
    pc = "done" /\ root = createQueryRange(0, 32) /\ ret = Ok({0, 1, 2})

\* C6: a list query whose children all denote a set returns the union of
\* the children's sets (so the order and the repetition of children do not
\* matter), and the empty list returns the empty set.
UnionOfChildren ==
    Returned /\ root.kind = "list"
       /\ (\A c \in 1..Len(root.queries) : Defined(root.queries[c]))
    => /\ ret = Ok(UNION {Value(root.queries[k]) : k \in 1..Len(root.queries)})
       /\ (root.queries = << >> => ret = Ok({}))

\* main's list query, "otto" bound to the point query of GUID 0, returned a
\* set of size 4
UnionOfChildrenWitness ==
    /\ pc = "done"
    /\ root = MainListQuery
    /\ "otto" \in DOMAIN group_db
    /\ group_db["otto"] = createQueryGuid(0)
    /\ ret.status = "ok"
    /\ Cardinality(ret.val) = 4

\* C7: a point query of a GUID present in guid_db returns the set holding
\* the value guid_db gives the GUID and nothing else.
PointSingleton ==
    pc = "done" /\ root.kind = "guid" /\ root.guid \in DOMAIN guid_db
    => ret = Ok({guid_db[root.guid]})

PointSingletonWitness ==
    pc = "done" /\ root = createQueryGuid(16) /\ ret = Ok({1})

\* C8 (as claimed): no step of an invocation changes guid_db or group_db,
\* and two invocations of one query with no store into group_db between
\* them return the same.
EvaluateFrameAndIdempotent ==
    /\ [][pc = "running" => guid_db' = guid_db /\ group_db' = group_db]_vars
    /\ [](pc = "done" /\ prev # None /\ ~stale => ret = prev)

\* C9: storing a query under a label makes no lookup and invokes nothing:
\* it changes group_db at that label to the query as built, and nothing
\* else; lookups and invocations are made by running invocations only.
RegisterLooksUpNothing ==
    /\ [][group_db' # group_db
            => /\ pc # "running" /\ pc' = pc
               /\ finds' = finds /\ calls' = calls
               /\ stack' = stack /\ ret' = ret /\ guid_db' = guid_db
               /\ \E label \in Labels, q \in RegQueries :
                     group_db' = [l \in DOMAIN group_db \cup {label} |->
                                     IF l = label THEN q ELSE group_db[l]]]_vars
    /\ [][finds' > finds => pc = "running"]_vars
    /\ [][calls' > calls => pc' = "running"]_vars

\* A list query holding a label query of the unregistered "anna" was built
\* and stored under "otto", and nothing was looked up or invoked
RegisterLooksUpNothingWitness ==
    /\ pc = "idle"
    /\ DOMAIN group_db = {"otto"}
    /\ group_db["otto"] = createQueryList(<<createQueryGuid(16), createQueryLabel("anna")>>)
    /\ finds = 0
    /\ calls = 0

\* C10 (as claimed): where every GUID and label reached is present and the
\* group database is acyclic, an invocation returns a set.
ReturnsWhenPresentAcyclic ==
    Returned /\ AllPresent(root) /\ Acyclic => ret.status = "ok"

\* C10 (amended): where moreover every range reached has
\* value(first) <= value(last), an invocation ends and returns a set, having
\* invoked each child of each list once, in list order.
TerminatesWhenDefined ==
    /\ [](Returned /\ AllPresent(root) /\ Acyclic /\ RangesOrdered(root)
          => ret.status = "ok" /\ calls = Invocations(root))
    /\ [][pc = "running" /\ Top.query.kind = "list" /\ Len(stack') > Len(stack)
          => stack'[Len(stack')].query = Top.query.queries[Top.idx + 1]]_vars
    /\ [][pc = "running" /\ Len(stack') = Len(stack) - 1 /\ Len(stack') > 0
          => stack'[Len(stack')].idx = stack[Len(stack')].idx + 1]_vars
    /\ (pc = "running" /\ AllPresent(root) /\ Acyclic /\ RangesOrdered(root))
          ~> (pc = "done" /\ ret.status = "ok")

\* main's list query ended after its 8 invocations
TerminatesWhenDefinedWitness ==
    /\ pc = "done"
    /\ root = MainListQuery
    /\ AllPresent(root) /\ Acyclic /\ RangesOrdered(root)
    /\ ret.status = "ok"
    /\ calls = 8

====
